---- MODULE Spec2Model ----
(***************************************************************************)
(* kprint: an authenticated gateway between HTTP clients and IPP printers. *)
(*                                                                         *)
(*   src/src/auth.rs  CSHAuth (middleware factory), get_client (provider   *)
(*                    client bootstrap), CSHAuthService::call (auth gate)  *)
(*   src/src/api.rs   parse_one_in_range, parse_range, print               *)
(*   src/src/main.rs  the application factory, run once per server worker  *)
(*                                                                         *)
(* The specifications share the variables:                                 *)
(*   SpecBoot   the provider-client bootstrap (get_client on a OnceCell)   *)
(*   SpecGate   requests passing through CSHAuthService::call              *)
(*   SpecPrint  the print handler: page-range parsing, merging, submission *)
(*              (every page spec, the body left out)                       *)
(*   SpecStream the print handler with the body pipe, the copies and the   *)
(*              reply (a few page specs); SpecStreamFair adds fairness     *)
(*                                                                         *)
(* Text (header values, page specs) is a sequence of one-character strings.*)
(***************************************************************************)
EXTENDS Integers, Sequences, FiniteSets, TLC

VARIABLES
    nAuth,      \* number of CSHAuth values the application factory has built
    cell,       \* cell[a]: content of CSHAuth a's OnceCell (NoClient or a client)
    permit,     \* permit[a]: the new_transform call holding a's init permit, or 0
    tpc,        \* tpc[c]: position of new_transform call c inside get_client
    tauth,      \* tauth[c]: the CSHAuth that call c was made on
    tclient,    \* tclient[c]: the client of the CSHAuthService call c built
    started,    \* number of discovery attempts started so far
    failedOn,   \* failedOn[a]: number of discovery attempts that failed on cell a
    req,        \* req[r]: a request at the auth gate
    job         \* the request inside the print handler

vars == <<nAuth, cell, permit, tpc, tauth, tclient, started, failedOn, req, job>>

bootVars == <<nAuth, cell, permit, tpc, tauth, tclient, started, failedOn>>

-----------------------------------------------------------------------------
(* Bounds of the model.                                                    *)

MaxAuth == 2

MaxCalls == 3

MaxHeaderPieces == 2

MaxTerms == 3

MaxChunks == 3

-----------------------------------------------------------------------------
(* Text helpers: what the std string methods used by the code compute.     *)

\* str::starts_with
StartsWith(s, p) ==
    /\ Len(p) <= Len(s)
    /\ SubSeq(s, 1, Len(p)) = p

\* str::trim_start_matches(pat): removes EVERY leading repetition of pat.
RECURSIVE TrimStartMatches(_, _)
TrimStartMatches(s, p) ==
    IF Len(p) > 0 /\ StartsWith(s, p)
    THEN TrimStartMatches(SubSeq(s, Len(p) + 1, Len(s)), p)
    ELSE s

RECURSIVE TrimStart(_)
TrimStart(s) ==
    IF s # <<>> /\ Head(s) = " " THEN TrimStart(Tail(s)) ELSE s

RECURSIVE TrimEnd(_)
TrimEnd(s) ==
    IF s # <<>> /\ s[Len(s)] = " " THEN TrimEnd(SubSeq(s, 1, Len(s) - 1)) ELSE s

\* str::trim
Trim(s) == TrimEnd(TrimStart(s))

\* Index of the first occurrence of character ch in s, 0 when there is none.
FirstIndex(s, ch) ==
    IF \E i \in 1..Len(s) : s[i] = ch
    THEN CHOOSE i \in 1..Len(s) : s[i] = ch /\ \A j \in 1..(i - 1) : s[j] # ch
    ELSE 0

\* str::split(ch): the pieces between the separators, empty pieces included.
RECURSIVE Split(_, _)
Split(s, ch) ==
    LET i == FirstIndex(s, ch)
    IN  IF i = 0
        THEN <<s>>
        ELSE <<SubSeq(s, 1, i - 1)>> \o Split(SubSeq(s, i + 1, Len(s)), ch)

\* str::split_once(ch).unwrap_or((s, s))
SplitOnceOrSelf(s, ch) ==
    LET i == FirstIndex(s, ch)
    IN  IF i = 0
        THEN <<s, s>>
        ELSE <<SubSeq(s, 1, i - 1), SubSeq(s, i + 1, Len(s))>>

-----------------------------------------------------------------------------
(* The requests and the print job before anything has happened to them.    *)

\* Two requests are at the gate at once.
Reqs == {1, 2}

\* No AuthenticatedUser in the request's extensions.
NoUser == <<>>

NoRequest ==
    [phase |-> "none", hdr |-> [present |-> FALSE, visible |-> FALSE, text |-> <<>>],
     user |-> NoUser, invoked |-> FALSE, status |-> 0, body |-> ""]

NoJob ==
    [phase |-> "none", printer |-> "", pages |-> <<>>, status |-> 0,
     error |-> "", bad_range |-> <<>>, kept |-> <<>>, page_ranges |-> <<>>,
     forwarder |-> "none", submitted |-> FALSE,
     \* the request: copies (a u32, as two 16-bit halves) and the items that
     \* its Payload stream has yet to yield
     copies |-> [hi |-> 0, lo |-> 1], inbound |-> <<>>,
     \* the attributes of the operation that depend on the request
     attributes |-> <<>>,
     \* the pipe: the number of items taken from the Payload, the item that
     \* forward holds, the channel (queue, parked sender, its two ends)
     taken |-> 0, held |-> <<>>, chan |-> <<>>, parked |-> FALSE,
     tx |-> "none", rx |-> "none", warned |-> FALSE,
     \* the payload as the backend has read it, and the reply to the client
     received |-> <<>>, eof |-> FALSE, send_error |-> <<>>,
     response |-> <<>>, job_link |-> <<>>, reply_body |-> <<>>]

-----------------------------------------------------------------------------
(* Provider-client bootstrap: CSHAuth::new, new_transform, get_client.     *)

Auths == 1..MaxAuth

Calls == 1..MaxCalls

\* The content of a OnceCell that get_or_try_init has not filled. A client
\* is named by the new_transform call whose discovery built it.
NoClient == 0

InitBoot ==
    /\ req = [r \in Reqs |-> NoRequest]
    /\ job = NoJob
    /\ nAuth = 0
    /\ cell = [a \in Auths |-> NoClient]
    /\ permit = [a \in Auths |-> 0]
    /\ tpc = [c \in Calls |-> "unused"]
    /\ tauth = [c \in Calls |-> 0]
    /\ tclient = [c \in Calls |-> NoClient]
    /\ started = 0
    /\ failedOn = [a \in Auths |-> 0]

\* main.rs: the factory closure runs once per server worker, and each run
\* evaluates CSHAuth::new, which makes a fresh, empty OnceCell.
NewCSHAuth ==
    /\ nAuth < MaxAuth
    /\ nAuth' = nAuth + 1
    /\ UNCHANGED <<cell, permit, tpc, tauth, tclient, started, failedOn, req, job>>

\* new_transform(&self, service) on CSHAuth a: creates the get_client future
\* over a clone of a's Rc<OnceCell>. Calls are numbered in order of arrival.
NewTransform(c, a) ==
    /\ tpc[c] = "unused"
    /\ \A d \in Calls : d < c => tpc[d] # "unused"
    /\ a \in 1..nAuth
    /\ tpc' = [tpc EXCEPT ![c] = "acquire"]
    /\ tauth' = [tauth EXCEPT ![c] = a]
    /\ UNCHANGED <<nAuth, cell, permit, tclient, started, failedOn, req, job>>

\* get_or_try_init finds the cell initialised (on entry, or when the closed
\* semaphore wakes a waiter): the call clones the client and builds its
\* CSHAuthService without any discovery.
GetInitialized(c) ==
    /\ tpc[c] = "acquire"
    /\ cell[tauth[c]] # NoClient
    /\ tpc' = [tpc EXCEPT ![c] = "done"]
    /\ tclient' = [tclient EXCEPT ![c] = cell[tauth[c]]]
    /\ UNCHANGED <<nAuth, cell, permit, tauth, started, failedOn, req, job>>

\* get_or_try_init on an empty cell takes the cell's single init permit and
\* runs the closure up to its await on discover_async.
AcquirePermit(c) ==
    /\ tpc[c] = "acquire"
    /\ cell[tauth[c]] = NoClient
    /\ permit[tauth[c]] = 0
    /\ permit' = [permit EXCEPT ![tauth[c]] = c]
    /\ started' = started + 1
    /\ tpc' = [tpc EXCEPT ![c] = "discover"]
    /\ UNCHANGED <<nAuth, cell, tauth, tclient, failedOn, req, job>>

\* discover_async answers with the provider metadata: the closure returns
\* Ok(client), the cell is set (its semaphore closed, the permit forgotten)
\* and new_transform maps the cloned client into a CSHAuthService.
DiscoverOk(c) ==
    /\ tpc[c] = "discover"
    /\ cell' = [cell EXCEPT ![tauth[c]] = c]
    /\ tclient' = [tclient EXCEPT ![c] = c]
    /\ tpc' = [tpc EXCEPT ![c] = "done"]
    /\ UNCHANGED <<nAuth, permit, tauth, started, failedOn, req, job>>

\* A variant of DiscoverFail that keeps the permit after the panic, so that
\* the cell can never be initialised again.
DiscoverFailPoisoned(c) ==
    /\ tpc[c] = "discover"
    /\ failedOn' = [failedOn EXCEPT ![tauth[c]] = @ + 1]
    /\ tpc' = [tpc EXCEPT ![c] = "panicked"]
    /\ UNCHANGED <<nAuth, cell, permit, tauth, tclient, started, req, job>>

\* discover_async fails: .expect("Failed to get provider metadata") panics.
\* Unwinding drops the closure's future and with it the permit, which goes
\* back to the semaphore; the cell stays empty and this call builds nothing.
DiscoverFail(c) ==
    /\ tpc[c] = "discover"
    /\ permit' = [permit EXCEPT ![tauth[c]] = 0]
    /\ failedOn' = [failedOn EXCEPT ![tauth[c]] = @ + 1]
    /\ tpc' = [tpc EXCEPT ![c] = "panicked"]
    /\ UNCHANGED <<nAuth, cell, tauth, tclient, started, req, job>>

NextBoot ==
    \/ NewCSHAuth
    \/ \E c \in Calls, a \in Auths : NewTransform(c, a)
    \/ \E c \in Calls : GetInitialized(c)
    \/ \E c \in Calls : AcquirePermit(c)
    \/ \E c \in Calls : DiscoverOk(c)
    \/ \E c \in Calls : DiscoverFail(c)

\* The state after one worker's middleware was built by a successful
\* discovery: one CSHAuth, its cell holding client 1, one CSHAuthService.
Bootstrapped ==
    /\ nAuth = 1
    /\ cell = [a \in Auths |-> IF a = 1 THEN 1 ELSE NoClient]
    /\ permit = [a \in Auths |-> IF a = 1 THEN 1 ELSE 0]
    /\ tpc = [c \in Calls |-> IF c = 1 THEN "done" ELSE "unused"]
    /\ tauth = [c \in Calls |-> IF c = 1 THEN 1 ELSE 0]
    /\ tclient = [c \in Calls |-> IF c = 1 THEN 1 ELSE NoClient]
    /\ started = 1
    /\ failedOn = [a \in Auths |-> 0]

-----------------------------------------------------------------------------
(* The auth gate: CSHAuthService::call.                                    *)

BearerPrefix == <<"B", "e", "a", "r", "e", "r", " ">>

\* Identity tokens. CshIdToken::from_str and IdToken::into_claims belong to
\* the openidconnect crate; here TokV is a token that parses and verifies,
\* TokU one that parses but fails verification (signature, issuer or
\* audience), and every other text does not parse as a token.
TokV == <<"v">>

TokU == <<"u">>

TokX == <<"x">>

HeaderPieces ==
    { BearerPrefix, <<"b", "e", "a", "r", "e", "r", " ">>,
      <<"B", "a", "s", "i", "c", " ">>, TokV, TokU, TokX }

RECURSIVE Concat(_)
Concat(ss) == IF ss = <<>> THEN <<>> ELSE Head(ss) \o Concat(Tail(ss))

HeaderTexts ==
    { Concat(ps) : ps \in UNION { [1..n -> HeaderPieces] : n \in 0..MaxHeaderPieces } }

\* The Authorization header of a request: absent, present with bytes that
\* HeaderValue::to_str refuses, or present with a visible-ASCII text.
Headers ==
    { [present |-> FALSE, visible |-> FALSE, text |-> <<>>],
      [present |-> TRUE, visible |-> FALSE, text |-> <<>>] }
    \cup { [present |-> TRUE, visible |-> TRUE, text |-> t] : t \in HeaderTexts }

\* CshIdToken::from_str(&token) is Ok
TokenParses(token) == token \in {TokV, TokU}

\* token.into_claims(&verifier, NullNonceVerifier) is Ok
TokenVerifies(token) == token = TokV

Unauthorized == [pass |-> FALSE, user |-> NoUser]

\* A variant of GateDecision that attaches the claims of any token that
\* parses, without verifying it.
GateDecisionNoVerify(h) ==
    IF ~(h.present /\ h.visible)
    THEN Unauthorized
    ELSE LET token == TrimStartMatches(h.text, BearerPrefix)
         IN  IF ~TokenParses(token)
             THEN Unauthorized
             ELSE [pass |-> TRUE, user |-> token]

\* The decision of call for a request with Authorization header h: whether
\* the request is passed to the wrapped service, and the AuthenticatedUser
\* inserted into its extensions (the claims of the verified token).
GateDecision(h) ==
    IF ~(h.present /\ h.visible)
    THEN Unauthorized
    ELSE LET token == TrimStartMatches(h.text, BearerPrefix)
         IN  IF ~TokenParses(token)
             THEN Unauthorized
             ELSE IF ~TokenVerifies(token)
                  THEN Unauthorized
                  ELSE [pass |-> TRUE, user |-> token]

\* Statuses the wrapped handler may answer with.
HandlerStatuses == {200, 404, 412, 500}

InitGate ==
    /\ Bootstrapped
    /\ req = [r \in Reqs |-> NoRequest]
    /\ job = NoJob

\* A request reaches the middleware with some Authorization header.
Arrive(r) ==
    /\ req[r].phase = "none"
    /\ \E h \in Headers :
         req' = [req EXCEPT ![r] = [NoRequest EXCEPT !.phase = "arrived", !.hdr = h]]
    /\ UNCHANGED <<bootVars, job>>

\* CSHAuthService::call(req): either returns the unauthorized future (401,
\* HttpResponse::Unauthorized().finish(), an empty body) or inserts the
\* AuthenticatedUser and calls the wrapped service.
Call(r) ==
    /\ req[r].phase = "arrived"
    /\ \E c \in Calls : tpc[c] = "done" /\ tclient[c] # NoClient
    /\ LET d == GateDecision(req[r].hdr)
       IN  req' = [req EXCEPT ![r] =
                     IF d.pass
                     THEN [@ EXCEPT !.phase = "handler", !.user = d.user,
                                    !.invoked = TRUE]
                     ELSE [@ EXCEPT !.phase = "done", !.status = 401, !.body = ""]]
    /\ UNCHANGED <<bootVars, job>>

\* The wrapped service's future completes; its response is returned with
\* the body boxed and nothing else changed.
HandlerReturn(r, st) ==
    /\ req[r].phase = "handler"
    /\ req' = [req EXCEPT ![r] = [@ EXCEPT !.phase = "done", !.status = st,
                                           !.body = "handler"]]
    /\ UNCHANGED <<bootVars, job>>

NextGate ==
    \/ \E r \in Reqs : Arrive(r)
    \/ \E r \in Reqs : Call(r)
    \/ \E r \in Reqs, st \in HandlerStatuses : HandlerReturn(r, st)

-----------------------------------------------------------------------------
(* Page ranges: parse_one_in_range, parse_range and the merge in print.    *)

DigitChars == <<"0", "1", "2", "3", "4", "5", "6", "7", "8", "9">>

IsDigit(ch) == \E i \in 1..10 : DigitChars[i] = ch

DigitVal(ch) == (CHOOSE i \in 1..10 : DigitChars[i] = ch) - 1

I32Max == 2147483647

I32Min == -I32Max - 1

\* The digits of an i32 after its sign, accumulated as <i32 as FromStr> does:
\* with checked arithmetic, away from zero for a negative number.
RECURSIVE ParseDigits(_, _, _)
ParseDigits(s, acc, neg) ==
    IF s = <<>>
    THEN [ok |-> TRUE, val |-> acc, error |-> ""]
    ELSE IF ~IsDigit(Head(s))
    THEN [ok |-> FALSE, val |-> 0, error |-> "InvalidDigit"]
    ELSE LET d == DigitVal(Head(s))
         IN  IF neg
             THEN IF acc < (I32Min + d + 9) \div 10
                  THEN [ok |-> FALSE, val |-> 0, error |-> "NegOverflow"]
                  ELSE ParseDigits(Tail(s), acc * 10 - d, neg)
             ELSE IF acc > (I32Max - d) \div 10
                  THEN [ok |-> FALSE, val |-> 0, error |-> "PosOverflow"]
                  ELSE ParseDigits(Tail(s), acc * 10 + d, neg)

\* str::parse::<i32>
ParseI32(s) ==
    IF s = <<>>
    THEN [ok |-> FALSE, val |-> 0, error |-> "Empty"]
    ELSE IF s = <<"+">> \/ s = <<"-">>
    THEN [ok |-> FALSE, val |-> 0, error |-> "InvalidDigit"]
    ELSE IF Head(s) = "+" THEN ParseDigits(Tail(s), 0, FALSE)
    ELSE IF Head(s) = "-" THEN ParseDigits(Tail(s), 0, TRUE)
    ELSE ParseDigits(s, 0, FALSE)

\* parse_one_in_range(term): the integer, or a ParseRangeError that carries
\* the ParseIntError and the text given to it as bad_range.
parse_one_in_range(term) ==
    LET p == ParseI32(term)
    IN  IF p.ok
        THEN [ok |-> TRUE, val |-> p.val, error |-> "", bad_range |-> <<>>]
        ELSE [ok |-> FALSE, val |-> 0, error |-> p.error, bad_range |-> term]

\* parse_range(range): Ok((start, end)), or the error of the start and else
\* of the end (the ? operators, left to right).
parse_range(range) ==
    LET se == SplitOnceOrSelf(range, "-")
        start == parse_one_in_range(se[1])
        end == parse_one_in_range(se[2])
    IN  IF ~start.ok
        THEN [ok |-> FALSE, pair |-> <<0, 0>>, error |-> start.error,
              bad_range |-> start.bad_range]
        ELSE IF ~end.ok
        THEN [ok |-> FALSE, pair |-> <<0, 0>>, error |-> end.error,
              bad_range |-> end.bad_range]
        ELSE [ok |-> TRUE, pair |-> <<start.val, end.val>>, error |-> "",
              bad_range |-> <<>>]

\* Variants of KeepEntry: one that also keeps end == start, one that drops
\* the entries that failed to parse.
KeepEntryInclusive(entry) ==
    IF entry.ok THEN entry.pair[2] >= entry.pair[1] ELSE TRUE

KeepEntryDropErrors(entry) ==
    IF entry.ok THEN entry.pair[2] > entry.pair[1] ELSE FALSE

\* The filter closure of print:
\*   entry.as_ref().map(|(start, end)| end > start).unwrap_or(true)
KeepEntry(entry) ==
    IF entry.ok THEN entry.pair[2] > entry.pair[1] ELSE TRUE

\* The entries of a non-blank page spec after split(','), trim, parse_range
\* and the filter.
FilteredEntries(pages) ==
    LET terms == Split(pages, ",")
        entries == [i \in 1..Len(terms) |-> parse_range(Trim(terms[i]))]
    IN  SelectSeq(entries, KeepEntry)

\* The value of page_ranges at line 148: collect::<Result<Vec<_>, _>>()
\* gives the first Err among the filtered entries, else the Vec of the
\* pairs; a blank page spec gives the empty Vec.
CollectRanges(pages) ==
    IF Trim(pages) = <<>>
    THEN [ok |-> TRUE, ranges |-> <<>>, error |-> "", bad_range |-> <<>>]
    ELSE LET kept == FilteredEntries(pages)
             bad == { i \in 1..Len(kept) : ~kept[i].ok }
         IN  IF bad # {}
             THEN LET i == CHOOSE i \in bad : \A j \in bad : i <= j
                  IN  [ok |-> FALSE, ranges |-> <<>>, error |-> kept[i].error,
                       bad_range |-> kept[i].bad_range]
             ELSE [ok |-> TRUE, ranges |-> [i \in 1..Len(kept) |-> kept[i].pair],
                   error |-> "", bad_range |-> <<>>]

\* Insert range r into the sorted sequence s after every element whose
\* start is <= r's start (a stable sort keeps equal keys in input order).
RECURSIVE InsertByStart(_, _)
InsertByStart(s, r) ==
    IF s = <<>> THEN <<r>>
    ELSE IF Head(s)[1] <= r[1] THEN <<Head(s)>> \o InsertByStart(Tail(s), r)
    ELSE <<r>> \o s

RECURSIVE InsertByStartDescending(_, _)
InsertByStartDescending(s, r) ==
    IF s = <<>> THEN <<r>>
    ELSE IF Head(s)[1] >= r[1]
         THEN <<Head(s)>> \o InsertByStartDescending(Tail(s), r)
         ELSE <<r>> \o s

\* A variant of SortByStart with the comparison reversed.
RECURSIVE SortByStartDescending(_)
SortByStartDescending(s) ==
    IF s = <<>> THEN <<>>
    ELSE InsertByStartDescending(
             SortByStartDescending(SubSeq(s, 1, Len(s) - 1)), s[Len(s)])

\* page_ranges.sort_by_key(|(start, _end)| *start): a stable sort.
RECURSIVE SortByStart(_)
SortByStart(s) ==
    IF s = <<>> THEN <<>>
    ELSE InsertByStart(SortByStart(SubSeq(s, 1, Len(s) - 1)), s[Len(s)])

\* A variant of the coalesce closure that fuses only ranges that overlap
\* strictly, leaving touching ranges apart.
MergeStepStrict(prev, this) ==
    IF prev[2] > this[1]
    THEN [merged |-> TRUE, range |-> <<prev[1], this[2]>>]
    ELSE [merged |-> FALSE, range |-> this]

\* The coalesce closure: Ok((prev_start, this_end)) when
\* prev_end >= this_start, else Err((prev, this)).
MergeStep(prev, this) ==
    IF prev[2] >= this[1]
    THEN [merged |-> TRUE, range |-> <<prev[1], this[2]>>]
    ELSE [merged |-> FALSE, range |-> this]

\* Itertools::coalesce: the closure is applied to the last pending element
\* and the next one; Ok replaces the pending element, Err emits it and makes
\* the next element pending.
RECURSIVE CoalesceFrom(_, _)
CoalesceFrom(last, rest) ==
    IF rest = <<>>
    THEN <<last>>
    ELSE LET m == MergeStep(last, Head(rest))
         IN  IF m.merged
             THEN CoalesceFrom(m.range, Tail(rest))
             ELSE <<last>> \o CoalesceFrom(m.range, Tail(rest))

Coalesce(s) == IF s = <<>> THEN <<>> ELSE CoalesceFrom(Head(s), Tail(s))

\* Lines 149-162: the merged ranges, one page-ranges attribute each.
MergeRanges(ranges) == Coalesce(SortByStart(ranges))

-----------------------------------------------------------------------------
(* The print handler (POST /printers/{printer}/print).                     *)

\* AppState.printers holds one printer; the path may name another.
Registry == {"printer"}

PrinterNames == {"printer", "nosuch"}

\* Decimal text of an integer, as Display for i32 writes it.
RECURSIVE FormatNat(_)
FormatNat(n) ==
    IF n < 10 THEN <<DigitChars[n + 1]>>
    ELSE FormatNat(n \div 10) \o <<DigitChars[(n % 10) + 1]>>

FormatInt(n) == IF n < 0 THEN <<"-">> \o FormatNat(0 - n) ELSE FormatNat(n)

\* The values of the pages query parameter that requests carry: up to
\* MaxTerms comma-separated terms, each a page number of PageNums, a dashed
\* pair of them, or one of a few other texts (empty, blank, not a number,
\* a range padded with spaces, a two-digit end, an end beyond i32).
PageNums == {1, 2, 3}

OtherTerms ==
    { <<>>, <<" ">>, <<"a">>, <<"1", "-", "a">>, <<"2", "-", "1", "0">>,
      <<" ", "4", "-", "5", " ">>,
      <<"3", "-", "2", "1", "4", "7", "4", "8", "3", "6", "4", "8">> }

TermTexts ==
    { FormatInt(n) : n \in PageNums }
    \cup { FormatInt(a) \o <<"-">> \o FormatInt(b) : a, b \in PageNums }
    \cup OtherTerms

RECURSIVE Join(_, _)
Join(ts, sep) ==
    IF Len(ts) = 0 THEN <<>>
    ELSE IF Len(ts) = 1 THEN ts[1]
    ELSE ts[1] \o sep \o Join(Tail(ts), sep)

PageSpecs ==
    { Join(ts, <<",">>) : ts \in UNION { [1..n -> TermTexts] : n \in 1..MaxTerms } }

\* A request that the gate has passed on to the handler.
PassedGate ==
    [phase |-> "handler",
     hdr |-> [present |-> TRUE, visible |-> TRUE, text |-> BearerPrefix \o TokV],
     user |-> TokV, invoked |-> TRUE, status |-> 0, body |-> ""]

InitPrint ==
    /\ Bootstrapped
    /\ req = [r \in Reqs |-> IF r = 1 THEN PassedGate ELSE NoRequest]
    /\ job = NoJob

\* The extractors have run: the handler holds the printer name of the path
\* and the PrintOptions of the query.
Receive ==
    /\ job.phase = "none"
    /\ \E name \in PrinterNames, pages \in PageSpecs :
         job' = [NoJob EXCEPT !.phase = "received", !.printer = name,
                              !.pages = pages]
    /\ UNCHANGED <<bootVars, req>>

\* The page-ranges attributes of the operation: one IppAttribute named
\* page-ranges, with a RangeOfInteger value, for each merged range.
\* (A variant that keeps one attribute per name, the last.)
PageRangeAttributesLastOnly(merged) ==
    IF merged = <<>> THEN <<>>
    ELSE <<[name |-> "page-ranges",
            value |-> [min |-> merged[Len(merged)][1],
                       max |-> merged[Len(merged)][2]]]>>

PageRangeAttributes(merged) ==
    [i \in 1..Len(merged) |->
        [name |-> "page-ranges",
         value |-> [min |-> merged[i][1], max |-> merged[i][2]]]]

\* A u32 is held as two 16-bit halves, hi * Half + lo. `copies as i32`
\* keeps the 32 bits and reads them as two's complement.
Half == 65536

CastU32ToI32(c) ==
    IF c.hi >= Half \div 2
    THEN (c.hi - Half) * Half + c.lo
    ELSE c.hi * Half + c.lo

CopiesAttribute(copies) ==
    [name |-> "copies", value |-> CastU32ToI32(copies)]

\* The attributes that print gives the operation builder after sides and
\* print-color-mode: the page-ranges attributes, then copies.
OperationAttributes(merged, copies) ==
    PageRangeAttributes(merged) \o <<CopiesAttribute(copies)>>

\* (A variant of print that reads the page spec before it looks the printer
\* up.)
printParseFirst ==
    /\ job.phase = "received"
    /\ \E parsed \in {CollectRanges(job.pages)} :
         job' =
           IF ~parsed.ok
           THEN [job EXCEPT !.phase = "done", !.status = 412,
                            !.error = parsed.error,
                            !.bad_range = parsed.bad_range]
           ELSE IF job.printer \notin Registry
           THEN [job EXCEPT !.phase = "done", !.status = 404]
           ELSE [job EXCEPT !.phase = "sent",
                            !.kept = parsed.ranges,
                            !.page_ranges = MergeRanges(parsed.ranges),
                            !.tx = "open", !.rx = "open",
                            !.forwarder = "spawned",
                            !.attributes =
                                OperationAttributes(
                                    MergeRanges(parsed.ranges), job.copies),
                            !.submitted = TRUE]
    /\ UNCHANGED <<bootVars, req>>

\* print, from its entry to its await on printer.send: the registry lookup
\* (404), the page ranges (412; kept is page_ranges as collected at line
\* 148, page_ranges the merged ranges of line 159), the channel and the
\* spawn of the body-forwarding task, and the print-job operation with its
\* attributes that is handed to printer.send.
print ==
    /\ job.phase = "received"
    /\ IF job.printer \notin Registry
       THEN job' = [job EXCEPT !.phase = "done", !.status = 404]
       ELSE \E parsed \in {CollectRanges(job.pages)} :
              job' =
                IF ~parsed.ok
                THEN [job EXCEPT !.phase = "done", !.status = 412,
                                 !.error = parsed.error,
                                 !.bad_range = parsed.bad_range]
                ELSE [job EXCEPT !.phase = "sent",
                                 !.kept = parsed.ranges,
                                 !.page_ranges = MergeRanges(parsed.ranges),
                                 !.tx = "open", !.rx = "open",
                                 !.forwarder = "spawned",
                                 !.attributes =
                                     OperationAttributes(
                                         MergeRanges(parsed.ranges), job.copies),
                                 !.submitted = TRUE]
    /\ UNCHANGED <<bootVars, req>>

\* printer.send(operation).await returns: Ok gives the 200 reply, Err is
\* mapped to KprintError::InternalError (500).
BackendReply(ok) ==
    /\ job.phase = "sent"
    /\ job' = [job EXCEPT !.phase = "done", !.status = IF ok THEN 200 ELSE 500]
    /\ UNCHANGED <<bootVars, req>>

NextPrint ==
    \/ Receive
    \/ print
    \/ \E ok \in BOOLEAN : BackendReply(ok)

-----------------------------------------------------------------------------
(* The job link: http::Uri as print uses it on the job-uri of the reply.   *)
(* An Option is a sequence of no element (None) or one (Some).             *)

BadUri == [ok |-> FALSE, scheme |-> <<>>, authority |-> <<>>, path_and_query |-> <<>>]

\* The index of the colon that ends the scheme of s (a colon followed by
\* two slashes), 0 when s has no scheme.
SchemeEnd(s) ==
    LET i == FirstIndex(s, ":")
    IN  IF i > 1 /\ Len(s) >= i + 2 /\ s[i + 1] = "/" /\ s[i + 2] = "/"
        THEN i ELSE 0

\* Uri::from_str: the empty text and a text with a space are refused; a
\* text that starts with a slash is a path alone; a text with a scheme
\* needs an authority after it; a text without a scheme is an authority
\* alone and is refused when a path follows it.
UriFromStr(s) ==
    IF s = <<>> \/ \E i \in 1..Len(s) : s[i] = " " THEN BadUri
    ELSE IF Head(s) = "/"
    THEN [ok |-> TRUE, scheme |-> <<>>, authority |-> <<>>, path_and_query |-> s]
    ELSE LET i == SchemeEnd(s)
             rest == IF i = 0 THEN s ELSE SubSeq(s, i + 3, Len(s))
             k == FirstIndex(rest, "/")
             authority == IF k = 0 THEN rest ELSE SubSeq(rest, 1, k - 1)
             path == IF k = 0 THEN <<>> ELSE SubSeq(rest, k, Len(rest))
         IN  IF i = 0
             THEN IF k # 0 THEN BadUri
                  ELSE [ok |-> TRUE, scheme |-> <<>>, authority |-> authority,
                        path_and_query |-> <<>>]
             ELSE IF authority = <<>> THEN BadUri
                  ELSE [ok |-> TRUE, scheme |-> SubSeq(s, 1, i - 1),
                        authority |-> authority, path_and_query |-> path]

\* Uri::into_parts: the path is Some when it is not empty or when the Uri
\* has a scheme.
IntoParts(u) ==
    [scheme |-> IF u.scheme = <<>> THEN <<>> ELSE <<u.scheme>>,
     authority |-> IF u.authority = <<>> THEN <<>> ELSE <<u.authority>>,
     path_and_query |->
         IF u.path_and_query # <<>> \/ u.scheme # <<>>
         THEN <<u.path_and_query>> ELSE <<>>]

Https == <<"h", "t", "t", "p", "s">>

\* Uri::from_parts: a scheme needs an authority and a path; an authority
\* with a path needs a scheme.
UriFromParts(parts) ==
    IF \/ parts.scheme # <<>>
          /\ (parts.authority = <<>> \/ parts.path_and_query = <<>>)
       \/ parts.scheme = <<>>
          /\ parts.authority # <<>> /\ parts.path_and_query # <<>>
    THEN BadUri
    ELSE [ok |-> TRUE,
          scheme |-> IF parts.scheme = <<>> THEN <<>> ELSE parts.scheme[1],
          authority |-> IF parts.authority = <<>> THEN <<>> ELSE parts.authority[1],
          path_and_query |->
              IF parts.path_and_query = <<>> THEN <<>> ELSE parts.path_and_query[1]]

\* Display for Uri: the empty path of a Uri with a scheme is written "/".
UriToString(u) ==
    (IF u.scheme = <<>> THEN <<>> ELSE u.scheme \o <<":", "/", "/">>)
    \o u.authority
    \o (IF u.path_and_query = <<>> /\ u.scheme # <<>> THEN <<"/">>
        ELSE u.path_and_query)

\* The job-uri attribute of the first group of the response that has one.
RECURSIVE FindJobUri(_)
FindJobUri(groups) ==
    IF groups = <<>> THEN <<>>
    ELSE IF Head(groups) # <<>> THEN Head(groups)
    ELSE FindJobUri(Tail(groups))

\* job_link of print: None without a job-uri, for a job-uri whose value is
\* not a uri and for one that Uri::from_str refuses; otherwise the Uri with
\* its scheme set to https, and a panic when from_parts refuses that.
JobLink(groups) ==
    LET found == FindJobUri(groups)
        parsed == IF found = <<>> \/ ~found[1].is_uri THEN BadUri
                  ELSE UriFromStr(found[1].text)
        rebuilt == UriFromParts([IntoParts(parsed) EXCEPT !.scheme = <<Https>>])
    IN  IF ~parsed.ok THEN [panic |-> FALSE, link |-> <<>>]
        ELSE IF ~rebuilt.ok THEN [panic |-> TRUE, link |-> <<>>]
        ELSE [panic |-> FALSE, link |-> <<UriToString(rebuilt)>>]

-----------------------------------------------------------------------------
(* The body pipe of print: the Payload stream, the forwarding task, the    *)
(* channel, and printer.send reading the payload from the channel.         *)

\* futures::channel::mpsc::channel(1): the queue takes buffer messages plus
\* one for each sender; the sender whose message brings the queue above
\* buffer is parked until the receiver takes a message.
Buffer == 1

\* The items of a Payload stream: chunks, numbered in the order of the
\* body, and PayloadError values.
Chunk(n) == [ok |-> TRUE, chunk |-> n, error |-> "none"]

PayloadErrors == {"Io", "Overflow"}

Broken(e) == [ok |-> FALSE, chunk |-> 0, error |-> e]

\* The bodies of the requests: up to MaxChunks chunks, and the bodies whose
\* transport breaks after fewer chunks than that.
Bodies ==
    { [i \in 1..n |-> Chunk(i)] : n \in 0..MaxChunks }
    \cup { [i \in 1..(n + 1) |-> IF i <= n THEN Chunk(i) ELSE Broken(e)] :
             n \in 0..(MaxChunks - 1), e \in PayloadErrors }

\* map_err on the Payload: the io::Error inside Io (or Incomplete), and
\* io::Error::other of every other PayloadError.
\* (A variant that turns an error into an empty chunk.)
MapErrSwallow(item) == IF item.ok THEN item ELSE Chunk(0)

MapErr(item) ==
    IF item.ok THEN item
    ELSE [item EXCEPT !.error =
             IF item.error = "Io"
             THEN [kind |-> "ConnectionReset", text |-> <<"connection reset by peer">>]
             ELSE [kind |-> "Other", text |-> <<"Payload reached size limit.">>]]

\* The copies that requests ask for: small counts, the largest i32, the
\* value above it and the largest u32.
CopiesValues ==
    { [hi |-> 0, lo |-> 1], [hi |-> 0, lo |-> 2],
      [hi |-> Half \div 2 - 1, lo |-> Half - 1],
      [hi |-> Half \div 2, lo |-> 0],
      [hi |-> Half - 1, lo |-> Half - 1] }

StreamPageSpecs == { <<"1", "-", "2">>, <<"a">> }

\* The extractors have run for a request with a body.
ReceiveBody ==
    /\ job.phase = "none"
    /\ \E name \in PrinterNames, pages \in StreamPageSpecs,
          copies \in CopiesValues, body \in Bodies :
         job' = [NoJob EXCEPT !.phase = "received", !.printer = name,
                              !.pages = pages, !.copies = copies,
                              !.inbound = body]
    /\ UNCHANGED <<bootVars, req>>

\* forward polls the Payload and gets an item: it keeps the item (mapped by
\* map_err and wrapped in Ok) until the sink takes it.
ForwardRead ==
    /\ job.forwarder = "spawned"
    /\ job.held = <<>>
    /\ job.inbound # <<>>
    /\ job' = [job EXCEPT !.held = <<MapErr(Head(job.inbound))>>,
                          !.inbound = Tail(@),
                          !.taken = @ + 1]
    /\ UNCHANGED <<bootVars, req>>

\* forward gives the item it holds to the sender. The sender is ready when
\* it is not parked; its message goes into the queue, and it is parked when
\* the queue is then above buffer. When the receiver is gone, parked or not,
\* the sender reports a SendError: forward ends with it and the task logs
\* the warning.
\* (Two variants: a sender that is never parked, and a parked sender that
\* the drop of the receiver does not wake.)
ForwardSendUnbounded ==
    /\ job.forwarder = "spawned"
    /\ job.held # <<>>
    /\ IF job.rx = "dropped"
       THEN job' = [job EXCEPT !.forwarder = "hungup", !.warned = TRUE,
                               !.held = <<>>, !.tx = "closed"]
       ELSE job' = [job EXCEPT !.chan = Append(@, job.held[1]),
                               !.held = <<>>]
    /\ UNCHANGED <<bootVars, req>>

ForwardSendNeverWoken ==
    /\ job.forwarder = "spawned"
    /\ job.held # <<>>
    /\ ~job.parked
    /\ IF job.rx = "dropped"
       THEN job' = [job EXCEPT !.forwarder = "hungup", !.warned = TRUE,
                               !.held = <<>>, !.tx = "closed"]
       ELSE job' = [job EXCEPT !.chan = Append(@, job.held[1]),
                               !.held = <<>>,
                               !.parked = Len(job.chan) + 1 > Buffer]
    /\ UNCHANGED <<bootVars, req>>

ForwardSend ==
    /\ job.forwarder = "spawned"
    /\ job.held # <<>>
    /\ IF job.rx = "dropped"
       THEN job' = [job EXCEPT !.forwarder = "hungup", !.warned = TRUE,
                               !.held = <<>>, !.tx = "closed"]
       ELSE /\ ~job.parked
            /\ job' = [job EXCEPT !.chan = Append(@, job.held[1]),
                                  !.held = <<>>,
                                  !.parked = Len(job.chan) + 1 > Buffer]
    /\ UNCHANGED <<bootVars, req>>

\* forward polls the Payload and gets its end: it closes the sender and the
\* task finishes without a warning (closing does not fail when the receiver
\* is gone).
ForwardClose ==
    /\ job.forwarder = "spawned"
    /\ job.held = <<>>
    /\ job.inbound = <<>>
    /\ job' = [job EXCEPT !.forwarder = "finished", !.tx = "closed"]
    /\ UNCHANGED <<bootVars, req>>

\* The reply to a request whose printer.send returned the error e: the
\* error goes through anyhow::Error into KprintError::InternalError, whose
\* response is 500 with the error's Display as body. The payload, and the
\* receiver inside it, is dropped with the operation; the queue goes with it.
InternalErrorPrefix == <<"an unspecified internal error occurred: ">>

InternalErrorBody(e) == InternalErrorPrefix \o e.text

SendFailed(j, e) ==
    [j EXCEPT !.phase = "done", !.status = 500, !.send_error = <<e>>,
              !.reply_body = InternalErrorBody(e),
              !.rx = "dropped", !.chan = <<>>]

\* printer.send reads the payload: the StreamReader takes the next message
\* of the channel, which wakes the parked sender. A chunk goes out to the
\* backend; an io::Error is the result of the read and fails the send.
\* (A variant in which the send only starts to read when the forwarding task
\* has ended.)
PayloadReadAfterForward ==
    /\ job.phase = "sent"
    /\ job.forwarder # "spawned"
    /\ job.chan # <<>>
    /\ \E item \in {Head(job.chan)} :
         job' = IF item.ok
                THEN [job EXCEPT !.chan = Tail(@), !.parked = FALSE,
                                 !.received = Append(@, item.chunk)]
                ELSE SendFailed(job, [source |-> "payload", text |-> item.error.text])
    /\ UNCHANGED <<bootVars, req>>

PayloadRead ==
    /\ job.phase = "sent"
    /\ job.chan # <<>>
    /\ \E item \in {Head(job.chan)} :
         job' = IF item.ok
                THEN [job EXCEPT !.chan = Tail(@), !.parked = FALSE,
                                 !.received = Append(@, item.chunk)]
                ELSE SendFailed(job, [source |-> "payload", text |-> item.error.text])
    /\ UNCHANGED <<bootVars, req>>

\* The StreamReader finds the channel empty and closed: the payload ends.
PayloadEof ==
    /\ job.phase = "sent"
    /\ ~job.eof
    /\ job.chan = <<>>
    /\ job.tx = "closed"
    /\ job' = [job EXCEPT !.eof = TRUE]
    /\ UNCHANGED <<bootVars, req>>

\* The job-uri attributes that an attribute group of a response may hold:
\* a value that is not a uri, and uri values of several forms.
UriTexts ==
    { <<"i", "p", "p", ":", "/", "/", "h", "/", "j">>,
      <<"h", "t", "t", "p", ":", "/", "/", "h", ":", "1", "/", "j">>,
      <<"h", "t", "t", "p", "s", ":", "/", "/", "h", "/", "j">>,
      <<"i", "p", "p", ":", "/", "/", "h">>,
      <<"/", "j">>,
      <<>> }

JobUriValues ==
    { [is_uri |-> FALSE, text |-> <<"7">>] }
    \cup { [is_uri |-> TRUE, text |-> t] : t \in UriTexts }

\* An attribute group, as far as print looks at it: its job-uri, if any.
Groups == { <<>> } \cup { <<v>> : v \in JobUriValues }

Responses == UNION { [1..n -> Groups] : n \in 0..2 }

\* printer.send returns a response, which the backend gives once it has the
\* whole payload: print derives the job link and replies 200, or panics on
\* the unwrap of Uri::from_parts and replies nothing.
SendOk ==
    /\ job.phase = "sent"
    /\ job.eof
    /\ \E response \in Responses :
         \E jl \in {JobLink(response)} :
           job' = IF jl.panic
                  THEN [job EXCEPT !.phase = "panicked", !.response = <<response>>,
                                   !.rx = "dropped"]
                  ELSE [job EXCEPT !.phase = "done", !.status = 200,
                                   !.response = <<response>>,
                                   !.job_link = jl.link, !.rx = "dropped"]
    /\ UNCHANGED <<bootVars, req>>

\* printer.send returns an error of the transport or of the protocol, at
\* any point of the submission.
BackendErrors ==
    { [source |-> "transport", text |-> <<"connection refused">>],
      [source |-> "protocol", text |-> <<"server-error-busy">>] }

SendErr ==
    /\ job.phase = "sent"
    /\ \E e \in BackendErrors : job' = SendFailed(job, e)
    /\ UNCHANGED <<bootVars, req>>

NextStream ==
    \/ ReceiveBody
    \/ print
    \/ ForwardRead
    \/ ForwardSend
    \/ ForwardClose
    \/ PayloadRead
    \/ PayloadEof
    \/ SendOk
    \/ SendErr

-----------------------------------------------------------------------------
(* Specifications.                                                         *)

SpecBoot == InitBoot /\ [][NextBoot]_vars

SpecGate == InitGate /\ [][NextGate]_vars

SpecPrint == InitPrint /\ [][NextPrint]_vars

SpecStream == InitPrint /\ [][NextStream]_vars

\* The runtime polls a task that can make progress: the forwarding task
\* and, inside the handler, the send that reads the payload; and a backend
\* that has the whole payload answers. A failure of the backend may happen
\* or not.
SpecStreamFair ==
    /\ InitPrint /\ [][NextStream]_vars
    /\ WF_vars(ForwardRead \/ ForwardSend \/ ForwardClose)
    /\ WF_vars(PayloadRead \/ PayloadEof)
    /\ WF_vars(SendOk)

-----------------------------------------------------------------------------
(* Claims about the auth gate, checked under SpecGate.                     *)

IsSuffix(t, s) ==
    /\ Len(t) <= Len(s)
    /\ SubSeq(s, Len(s) - Len(t) + 1, Len(s)) = t

\* C1: the wrapped handler is invoked only for a request whose Authorization
\* header was present and readable and carried a token that parsed and
\* verified, and that token's claims are the attached AuthenticatedUser; a
\* request the gate has answered itself got 401 with an empty body, has no
\* AuthenticatedUser attached and never reached the handler.
C1_HandlerOnlyAfterVerification ==
    \A r \in Reqs :
        /\ req[r].invoked =>
             /\ req[r].hdr.present /\ req[r].hdr.visible
             /\ req[r].user # NoUser
             /\ IsSuffix(req[r].user, req[r].hdr.text)
             /\ TokenParses(req[r].user) /\ TokenVerifies(req[r].user)
        /\ (req[r].phase \in {"handler", "done"} /\ ~req[r].invoked) =>
             /\ req[r].status = 401
             /\ req[r].body = ""
             /\ req[r].user = NoUser
        /\ req[r].phase \in {"none", "arrived"} =>
             ~req[r].invoked /\ req[r].user = NoUser
        /\ req[r].phase = "handler" => req[r].invoked

\* One request went through to the handler and was answered by it, another
\* carried a token that parses but does not verify and was answered 401.
C1_Witness ==
    /\ req[1].phase = "done" /\ req[1].invoked /\ req[1].status = 200
    /\ req[2].phase = "done" /\ ~req[2].invoked /\ req[2].status = 401
    /\ req[2].hdr.text = BearerPrefix \o TokU

\* C2: the handler is invoked only for a request whose Authorization header
\* has the form `Bearer <token>`.
C2_BearerFormRequired ==
    \A r \in Reqs :
        req[r].invoked =>
            /\ req[r].hdr.present /\ req[r].hdr.visible
            /\ StartsWith(req[r].hdr.text, BearerPrefix)
            /\ req[r].hdr.text = BearerPrefix \o req[r].user

-----------------------------------------------------------------------------
(* Claims about the provider-client bootstrap, checked under SpecBoot.     *)

Discovering == { c \in Calls : tpc[c] = "discover" }

Finished == { c \in Calls : tpc[c] \in {"done", "panicked"} }

\* C3: at most one discovery attempt is in flight at any time, at most one
\* discovery attempt is ever started, and all callers that have finished
\* observed the same outcome (the same client, or all a failure).
C3_SingleFlightSharedOutcome ==
    /\ Cardinality(Discovering) <= 1
    /\ started <= 1
    /\ \A c, d \in Finished : tpc[c] = tpc[d] /\ tclient[c] = tclient[d]

\* C4: however many CSHAuth values the factory builds, at most one discovery
\* builds a client in the process and every CSHAuthService holds that one
\* client.
C4_OneDiscoveryPerProcess ==
    /\ Cardinality({ a \in Auths : cell[a] # NoClient }) <= 1
    /\ \A c, d \in Calls :
         (tpc[c] = "done" /\ tpc[d] = "done") => tclient[c] = tclient[d]

-----------------------------------------------------------------------------
(* Claims about the page ranges, checked under SpecPrint.                  *)

\* The handler got past the page ranges: the job was submitted.
Submitted == job.phase \in {"sent", "done"} /\ job.submitted

\* The terms of the page spec as print sees them, and their parses.
TermsOf(pages) ==
    LET ts == Split(pages, ",") IN [i \in 1..Len(ts) |-> Trim(ts[i])]

ParsesOf(pages) ==
    LET ts == TermsOf(pages) IN [i \in 1..Len(ts) |-> parse_range(ts[i])]

NonBlank(pages) == \E i \in 1..Len(pages) : pages[i] # " "

AllOk(ps) == \A i \in 1..Len(ps) : ps[i].ok

\* Page p lies in some range of the sequence rs.
Covers(rs, p) == \E i \in 1..Len(rs) : rs[i][1] <= p /\ p <= rs[i][2]

\* C6: the merged ranges of a page spec that parsed are ascending by start,
\* each has end > start, and each ends strictly before the next one starts
\* (no overlap, no touching).
C6_MergedAscendingDisjoint ==
    Submitted =>
        LET m == job.page_ranges
        IN  /\ \A i \in 1..Len(m) : m[i][2] > m[i][1]
            /\ \A i, j \in 1..Len(m) :
                 i < j => (m[i][1] < m[j][1] /\ m[i][2] < m[j][1])

\* Three kept ranges were merged into two.
C6_Witness ==
    /\ Submitted
    /\ Len(job.kept) = 3
    /\ Len(job.page_ranges) = 2

\* C7: a page lies in some merged range if and only if it lies in some kept
\* input range.
C7_MergeCoversKept ==
    Submitted =>
        \A p \in 0..12 : Covers(job.page_ranges, p) <=> Covers(job.kept, p)

\* The page spec that a sequence of ranges is written as.
RenderSpec(rs) ==
    Join([i \in 1..Len(rs) |-> FormatInt(rs[i][1]) \o <<"-">> \o FormatInt(rs[i][2])],
         <<",">>)

\* C8: writing the merged ranges back as a page spec and running it through
\* the parse, the filter, the sort and the coalesce again gives the same
\* sequence of ranges.
C8_MergeIdempotent ==
    Submitted =>
        LET again == CollectRanges(RenderSpec(job.page_ranges))
        IN  /\ again.ok
            /\ MergeRanges(again.ranges) = job.page_ranges

\* A spec whose ranges were fused and reordered by the merge.
C8_Witness ==
    /\ Submitted
    /\ Len(job.page_ranges) = 2
    /\ Len(job.kept) = 3
    /\ job.kept[1][1] > job.kept[3][1]

\* The parsed pairs of the spec with end > start, in the order of the spec.
RECURSIVE PairsAbove(_)
PairsAbove(ps) ==
    IF ps = <<>> THEN <<>>
    ELSE IF Head(ps).pair[2] > Head(ps).pair[1]
         THEN <<Head(ps).pair>> \o PairsAbove(Tail(ps))
         ELSE PairsAbove(Tail(ps))

\* C9: of a non-blank page spec whose terms all parse, exactly the terms
\* whose pair has end > start are kept, in order; the request is not failed
\* for the dropped ones, and when every term is dropped (as for a bare page
\* number) the job is submitted with no page range at all.
C9_KeptIffEndAboveStart ==
    (job.phase \in {"sent", "done"} /\ job.printer \in Registry
        /\ NonBlank(job.pages)) =>
        \A ps \in {ParsesOf(job.pages)} :
            AllOk(ps) =>
                /\ job.submitted /\ job.status \in {0, 200, 500}
                /\ job.kept = PairsAbove(ps)
                /\ (\A i \in 1..Len(ps) : ps[i].pair[2] <= ps[i].pair[1])
                   => job.page_ranges = <<>>

\* The page spec "2" (one bare page number) was submitted without ranges.
C9_Witness ==
    /\ job.phase = "sent"
    /\ job.pages = <<"2">>
    /\ job.submitted
    /\ job.page_ranges = <<>>

\* The first of the parses ps that failed.
FirstBad(ps) ==
    CHOOSE i \in 1..Len(ps) : ~ps[i].ok /\ \A j \in 1..(i - 1) : ps[j].ok

\* The text of a term that parse_one_in_range refused: its start, else its
\* end.
RefusedText(term) ==
    LET se == SplitOnceOrSelf(term, "-")
    IN  IF ParseI32(se[1]).ok THEN se[2] ELSE se[1]

\* The handler has run for a registered printer and a non-blank page spec.
PagesHandled ==
    /\ job.phase \in {"sent", "done"}
    /\ job.printer \in Registry
    /\ NonBlank(job.pages)

\* C10 as stated: a request (for a registered printer) whose page spec has a
\* term with a start or end that is not an integer fails with 412, the body
\* names the offending term, no forwarding task is started and no job is
\* submitted.
C10_ErrorNamesTerm ==
    PagesHandled =>
        \A ps \in {ParsesOf(job.pages)} :
            ~AllOk(ps) =>
                /\ job.status = 412
                /\ job.forwarder = "none" /\ ~job.submitted
                /\ job.bad_range = TermsOf(job.pages)[FirstBad(ps)]

\* C10 as amended: such a request fails with 412, no forwarding task is
\* started and no job is submitted, and the body names the text that failed
\* to parse as an integer: the start, else the end, of the first offending
\* term, together with the kind of the integer parse error.
C10_ErrorNamesRefusedText ==
    PagesHandled =>
        \A ps \in {ParsesOf(job.pages)} :
            ~AllOk(ps) =>
                /\ job.status = 412
                /\ job.forwarder = "none" /\ ~job.submitted
                /\ job.kept = <<>> /\ job.page_ranges = <<>>
                /\ job.bad_range = RefusedText(TermsOf(job.pages)[FirstBad(ps)])
                /\ job.error = ParseI32(job.bad_range).error
                /\ job.error # ""

\* A spec whose second term has an end that is not a number, after a term
\* that the filter drops: 412 naming the end alone.
C10_Witness ==
    /\ job.phase = "done"
    /\ job.status = 412
    /\ job.pages = <<"2", ",", "1", "-", "a">>
    /\ job.bad_range = <<"a">>

\* The attributes of the given name among the operation's attributes.
AttributesNamed(attrs, name) == SelectSeq(attrs, LAMBDA a : a.name = name)

C20_MergeIgnoresTermOrder ==
    (Submitted /\ NonBlank(job.pages)) =>
        \A ts \in {Split(job.pages, ",")} :
            \A f \in Permutations(1..Len(ts)) :
                \A again \in {CollectRanges(
                                 Join([i \in 1..Len(ts) |-> ts[f[i]]], <<",">>))} :
                    /\ again.ok
                    /\ MergeRanges(again.ranges) = job.page_ranges

-----------------------------------------------------------------------------
(* Claims about the body pipe and the reply, checked under SpecStream and  *)
(* SpecStreamFair.                                                         *)

\* C12: a request for a printer that is not in the registry is answered 404
\* and nothing else happens to it: the page spec is not parsed (no 412, even
\* for an unparseable spec), no channel is made, no forwarding task is
\* spawned, nothing is submitted and no item is taken from the body.
C12_UnknownPrinterBeforeBody ==
    (job.phase \notin {"none", "received"} /\ job.printer \notin Registry) =>
        /\ job.phase = "done" /\ job.status = 404
        /\ job.error = "" /\ job.bad_range = <<>> /\ job.kept = <<>>
        /\ job.forwarder = "none" /\ job.tx = "none" /\ job.rx = "none"
        /\ ~job.submitted /\ job.attributes = <<>>
        /\ job.taken = 0 /\ job.held = <<>> /\ job.chan = <<>>
        /\ job.inbound \in Bodies

\* 404 for an unknown printer, an unparseable page spec and a body of
\* MaxChunks chunks, none of them taken.
C12_Witness ==
    /\ job.phase = "done" /\ job.status = 404
    /\ job.pages = <<"a">>
    /\ Len(job.inbound) = MaxChunks
    /\ job.taken = 0

\* The items that were taken from the Payload and that the payload reader
\* has not taken yet.
Unconsumed == Len(job.held) + Len(job.chan)

\* C13 as stated: at most one item taken from the body waits between the
\* forwarding task and the payload reader.
C13_OneChunkAhead == Unconsumed <= 1

\* C13 as amended: forward holds at most one item, the channel's queue at
\* most buffer + 1 (one slot for the one sender on top of buffer), so that
\* the forwarding task is never more than buffer + 2 = 3 items ahead of the
\* payload reader, whatever the length of the body.
C13_BoundedAhead ==
    /\ Len(job.held) <= 1
    /\ Len(job.chan) <= Buffer + 1
    /\ job.rx = "open" =>
         /\ job.taken = Len(job.received) + Unconsumed
         /\ job.taken - Len(job.received) <= Buffer + 2
    /\ job.parked => Len(job.chan) = Buffer + 1 \/ job.rx = "dropped"

\* Three items wait: two in the queue, with the sender parked, and one held
\* by forward.
C13_Witness ==
    /\ job.rx = "open"
    /\ Len(job.chan) = Buffer + 1
    /\ Len(job.held) = 1
    /\ job.parked
    /\ job.received = <<>>

\* printer.send has returned an error.
Failed == job.send_error # <<>>

ForwarderStopped == job.forwarder \in {"finished", "hungup"}

\* C14: once the submission has failed, the request has the reply 500 and
\* keeps it, and the forwarding task stops: it ends with the warning when it
\* still had an item to send, parked or not, and finishes otherwise.
C14_FailureStopsForwarder ==
    /\ [](Failed =>
            /\ job.phase = "done" /\ job.status = 500
            /\ job.reply_body = InternalErrorBody(job.send_error[1])
            /\ job.rx = "dropped"
            /\ job.warned <=> job.forwarder = "hungup")
    /\ (Failed ~> ForwarderStopped)

\* The backend failed while the queue was full, the sender parked and a
\* third item held by forward; the forwarding task has hung up.
C14_Witness ==
    /\ Failed
    /\ job.status = 500
    /\ job.send_error[1].source = "transport"
    /\ job.taken = Buffer + 2
    /\ job.parked
    /\ job.forwarder = "hungup" /\ job.warned

\* No PayloadError is or was on the way to the payload reader.
Clean ==
    /\ \A i \in 1..Len(job.inbound) : job.inbound[i].ok
    /\ \A i \in 1..Len(job.held) : job.held[i].ok
    /\ \A i \in 1..Len(job.chan) : job.chan[i].ok

\* The backend has read the whole body, each chunk once and in order, the
\* forwarding task has finished and printer.send has returned.
Delivered ==
    /\ job.phase # "sent"
    /\ job.eof
    /\ job.inbound = <<>>
    /\ job.received = [i \in 1..job.taken |-> i]
    /\ job.forwarder = "finished"

\* C15: the backend reads the chunks in the order of the body, each once;
\* and a submission with a body without errors, of whatever length, goes on
\* until the backend has the whole body, the forwarding task has finished
\* and printer.send has returned, unless the backend fails.
C15_StreamsToCompletion ==
    /\ [](\A i \in 1..Len(job.received) : job.received[i] = i)
    /\ ((job.phase = "sent" /\ Clean) ~> (Failed \/ Delivered))

\* A body of MaxChunks chunks, more than the queue takes, was delivered and
\* answered 200.
C15_Witness ==
    /\ job.status = 200
    /\ Delivered
    /\ Len(job.received) = MaxChunks
    /\ MaxChunks > Buffer + 1

IoErrorKinds == {"ConnectionReset", "Other"}

\* C16: a PayloadError goes into the pipe as an io::Error; when the payload
\* reader gets it the submission fails and the reply is 500; and a reply of
\* 200 is only given when everything taken from the body was a chunk that
\* the backend has read and the body has ended.
C16_ReadErrorFailsRequest ==
    /\ \A i \in 1..Len(job.held) :
         ~job.held[i].ok => job.held[i].error.kind \in IoErrorKinds
    /\ \A i \in 1..Len(job.chan) :
         ~job.chan[i].ok => job.chan[i].error.kind \in IoErrorKinds
    /\ (Failed /\ job.send_error[1].source = "payload") =>
         job.phase = "done" /\ job.status = 500
    /\ job.status = 200 =>
         /\ job.inbound = <<>>
         /\ job.received = [i \in 1..job.taken |-> i]

\* The transport broke after the first chunk; the backend read the chunk,
\* the payload reader got the error and the reply is 500.
C16_Witness ==
    /\ Failed
    /\ job.send_error[1].source = "payload"
    /\ job.status = 500
    /\ job.received = <<1>>
    /\ job.taken = 2

\* The text of a uri from the colon that ends its scheme.
AfterScheme(t) ==
    IF SchemeEnd(t) = 0 THEN t ELSE SubSeq(t, SchemeEnd(t), Len(t))

\* C17: a response is answered 200; when it has a job-uri with a uri value
\* the job link is that uri with https as its scheme and the rest as it
\* was, and when it has no job-uri the job link is null.
C17_JobLinkIsHttps ==
    job.response # <<>> =>
        \A found \in {FindJobUri(job.response[1])} :
            /\ job.phase = "done" /\ job.status = 200
            /\ found = <<>> => job.job_link = <<>>
            /\ (found # <<>> /\ found[1].is_uri) =>
                 /\ job.job_link # <<>>
                 /\ job.job_link = <<Https \o AfterScheme(found[1].text)>>

\* t occurs in s.
IsInfix(t, s) ==
    \E i \in 0..(Len(s) - Len(t)) : SubSeq(s, i + 1, i + Len(t)) = t

\* C18: a failed submission is answered 500 with a body that does not
\* contain the text of the error that printer.send returned.
C18_InternalErrorIsOpaque ==
    Failed =>
        /\ job.status = 500
        /\ ~IsInfix(job.send_error[1].text, job.reply_body)

\* C19: the copies attribute of a submitted job is not negative and is the
\* count that the request asked for.
C19_CopiesAttributeIsRequested ==
    job.submitted =>
        \A cs \in {AttributesNamed(job.attributes, "copies")} :
            /\ Len(cs) = 1
            /\ cs[1].value >= 0
            /\ cs[1].value \div Half = job.copies.hi
            /\ cs[1].value % Half = job.copies.lo

====
